---- MODULE Spec2Model ----
(***************************************************************************)
(* State-machine model of tpclassifier/classifiers.py: the class           *)
(* TextpressoDocumentClassifier with its three DatasetStruct collections,  *)
(* its vectorizer, feature selector and classifier, and one action per     *)
(* public method.  Python's None is modelled by an isNone flag on a record *)
(* of fixed shape; Python's 0-based indices are 1-based here.  A raised    *)
(* exception is recorded, by its Python type name, in last.raised.         *)
(***************************************************************************)
EXTENDS Integers, Sequences, FiniteSets, TLC

\* ------------------------------------------------------------------ bounds
\* Largest number of file identifiers the full dataset may hold.
MaxDocs == 3
\* Largest number of method calls in one run.
MaxCalls == 5
\* Number of buckets of the hashing vectorizer (scaled down from sklearn's).
HashSize == 2

\* ------------------------------------------------------- generic helpers
Range(s) == {s[i] : i \in DOMAIN s}

Min2(a, b) == IF a < b THEN a ELSE b

\* s[:n] of Python for n >= 0
Take(s, n) == SubSeq(s, 1, Min2(n, Len(s)))

\* s[n:] of Python for n >= 0
Drop(s, n) == SubSeq(s, Min2(n, Len(s)) + 1, Len(s))

RECURSIVE SumSeq(_)
SumSeq(s) == IF s = <<>> THEN 0 ELSE Head(s) + SumSeq(Tail(s))

RECURSIVE ProdSeq(_)
ProdSeq(s) == IF s = <<>> THEN 1 ELSE Head(s) * ProdSeq(Tail(s))

\* All orders random.shuffle can leave list(range(n)) in.
Perms(n) == {p \in [1..n -> 1..n] : \A i, j \in 1..n : p[i] = p[j] => i = j}

\* ---------------------------------------------------- the file system
\* A document's text: the token sequence of the extracted text, or None.
NoText == [isNone |-> TRUE, words |-> <<>>]
Text(ws) == [isNone |-> FALSE, words |-> ws]

\* What the text-extraction functions of tpclassifier.fileutils return for
\* a path: the text of a regular file, or None when the path yields no text
\* (a file without text, a directory).
FileText(name) ==
    CASE name = "a1" -> Text(<<"cat", "dog">>)
      [] name = "a2" -> NoText
      [] name = "b1" -> Text(<<"dog", "dog">>)
      [] name = "s1" -> Text(<<"cat">>)
      [] OTHER -> NoText

\* os.listdir(dir_path): the entries of each directory, in listing order.
Entry(n, d) == [name |-> n, isdir |-> d]
ListDir(dir) ==
    CASE dir = "A" -> <<Entry("a1", FALSE), Entry("a2", FALSE)>>
      [] dir = "B" -> <<Entry("b1", FALSE), Entry("sub", TRUE)>>
      [] dir = "sub" -> <<Entry("s1", FALSE)>>
      [] OTHER -> <<>>

Dirs == {"A", "B"}
Files == {"a1", "a2", "b1", "s1"}
FileTypes == {"pdf", "cas_pdf", "cas_xml"}
Categories == {0, 1}

\* extract_text_from_pdf(path), and
\* extract_text_from_cas_content(read_compressed_cas_content(path), cas_type)
\* for either CasType: the text, or None.
ExtractText(name, file_type) == FileText(name)

\* --------------------------------------------------------------- records
NoMatrix == [isNone |-> TRUE, rows |-> <<>>, ncols |-> 0]
Matrix(rs, nc) == [isNone |-> FALSE, rows |-> rs, ncols |-> nc]

DatasetStruct(d, f, t, x) ==
    [data |-> d, filenames |-> f, target |-> t, tr_features |-> x]

EmptyDataset == DatasetStruct(<<>>, <<>>, <<>>, NoMatrix)


\* The record of the most recent method call: the method, its path or
\* tokenizer_type argument, the exception it raised ("" when it returned
\* normally), and the locals and return values that the properties read
\* (arg is the matrix handed to self.classifier.predict).
NoSelection == [isNone |-> TRUE, idx |-> <<>>]
Selection(ix) == [isNone |-> FALSE, idx |-> ix]

NoCall ==
    [op |-> "", raised |-> "", path |-> "", percentage_training |-> <<0, 1>>,
     training_set_idx |-> <<>>, test_set_idx |-> <<>>,
     selection |-> NoSelection, arg |-> NoMatrix,
     filenames |-> <<>>, labels |-> <<>>]

VARIABLES
    dataset,          \* self.dataset
    training_set,     \* self.training_set
    test_set,         \* self.test_set
    classifier,       \* self.classifier
    vectorizer,       \* self.vectorizer
    feature_selector, \* self.feature_selector
    top_n_feat,       \* self.top_n_feat
    tfidf_transformer,\* the local of extract_features' HASH branch, as last set
    last,             \* the most recent call and its outcome
    calls             \* number of calls made so far

vars == <<dataset, training_set, test_set, classifier, vectorizer,
          feature_selector, top_n_feat, tfidf_transformer, last, calls>>

\* --------------------------------------- add_classified_docs_to_dataset
\* Lines 79-93: one regular file.
AddFile(ds, name, file_type, category) ==
    LET text == ExtractText(name, file_type)
        data1 == IF file_type = "pdf"
                 THEN IF ~text.isNone THEN Append(ds.data, text) ELSE ds.data
                 ELSE IF file_type = "cas_pdf" \/ file_type = "cas_xml"
                      THEN Append(ds.data, text)
                      ELSE ds.data
    IN  [ds EXCEPT !.data = data1,
                   !.filenames = Append(ds.filenames, name),
                   !.target = Append(ds.target, category)]

\* Lines 78-96: the loop over os.listdir(dir_path), with the recursive call.
RECURSIVE AddEntries(_, _, _, _, _)
AddEntries(ds, entries, recursive, file_type, category) ==
    IF entries = <<>> THEN ds
    ELSE LET e == Head(entries)
             ds1 == IF ~e.isdir
                    THEN AddFile(ds, e.name, file_type, category)
                    ELSE IF recursive
                         THEN AddEntries(ds, ListDir(e.name), TRUE,
                                         file_type, category)
                         ELSE ds
         IN  AddEntries(ds1, Tail(entries), recursive, file_type, category)

\* ------------------------------------- generate_training_and_test_sets
\* percentage_training as a fraction <<num, den>> with 0 < num/den < 1.
Ratios == {<<1, 2>>, <<4, 5>>}

\* int(len(idx_rand_order) * percentage_training)
SplitPoint(n, p) == (n * p[1]) \div p[2]

\* Line 107: idx_rand_order[:int(len(idx_rand_order) * percentage_training)]
TrainingSetIdx(idx_rand_order, p) ==
    Take(idx_rand_order, SplitPoint(Len(idx_rand_order), p))

\* A split that starts the test slice one place late.
TestSetIdxLate(idx_rand_order, p) ==
    Drop(idx_rand_order, SplitPoint(Len(idx_rand_order), p) + 1)

\* Line 108: idx_rand_order[int(len(idx_rand_order) * percentage_training):]
TestSetIdx(idx_rand_order, p) ==
    Drop(idx_rand_order, SplitPoint(Len(idx_rand_order), p))

\* [seq[i] for i in idx]
Pick(seq, idx) == [k \in 1..Len(idx) |-> seq[idx[k]]]

\* Lines 107-114.
SplitInto(part, ds, idx) ==
    [part EXCEPT !.data = Pick(ds.data, idx),
                 !.filenames = Pick(ds.filenames, idx),
                 !.target = Pick(ds.target, idx)]

\* ------------------------------------------------------- vectorizers
\* The tokens of the corpus, in the alphabetical order in which
\* CountVectorizer and TfidfVectorizer sort their vocabulary.
WordOrder == <<"cat", "dog">>

TokenizerTypes == {"BOW", "TFIDF", "HASH"}
\* A tokenizer_type argument that is none of the members of TokenizerType.
Unrecognized == "OTHER"

NoVectorizer ==
    [isNone |-> TRUE, kind |-> "", fitted |-> FALSE,
     vocabulary |-> <<>>, df |-> <<>>, n |-> 0]

\* TfidfTransformer(): the document frequencies and the number of documents
\* it was fitted on.
NoTransformer == [isNone |-> TRUE, df |-> <<>>, n |-> 0]

HasNone(docs) == \E i \in DOMAIN docs : docs[i].isNone

Count(tok, ws) == Cardinality({i \in DOMAIN ws : ws[i] = tok})

\* A matrix cell <<tf, df, n>> stands for the count tf weighted by the
\* inverse document frequency of a term found in df of n documents;
\* <<tf, 0, 0>> is an unweighted count.
Cell(tf) == <<tf, 0, 0>>

\* The vocabulary CountVectorizer.fit learns: the distinct tokens, sorted.
Vocabulary(docs) ==
    SelectSeq(WordOrder,
              LAMBDA w : \E i \in DOMAIN docs : Count(w, docs[i].words) > 0)

\* CountVectorizer.transform of one document.
CountRow(vocab, doc) ==
    [j \in 1..Len(vocab) |-> Cell(Count(vocab[j], doc.words))]

\* HashingVectorizer: the bucket of a token, and the transform of a document.
WordCode(w) == CHOOSE j \in 1..Len(WordOrder) : WordOrder[j] = w
Bucket(w) == (WordCode(w) % HashSize) + 1
HashRow(doc) ==
    [b \in 1..HashSize |->
        Cell(Cardinality({i \in DOMAIN doc.words : Bucket(doc.words[i]) = b}))]

\* TfidfTransformer.fit on a count matrix.
FitTfidf(rows, ncols) ==
    [isNone |-> FALSE,
     df |-> [j \in 1..ncols |->
                Cardinality({i \in DOMAIN rows : rows[i][j][1] > 0})],
     n |-> Len(rows)]

\* TfidfTransformer.transform of one row of counts.
Reweight(t, row) == [j \in DOMAIN row |-> <<row[j][1], t.df[j], t.n>>]

ReweightAll(t, rows) == [i \in DOMAIN rows |-> Reweight(t, rows[i])]

\* The vectorizer objects built at lines 139-143, 149-152 and 161-165,
\* before any fit.
NewVectorizer(kind) ==
    [isNone |-> FALSE, kind |-> kind, fitted |-> kind = "HASH",
     vocabulary |-> <<>>, df |-> <<>>, n |-> 0]

\* CountVectorizer.fit / TfidfVectorizer.fit on the training text.
FitVectorizer(kind, docs) ==
    LET vocab == Vocabulary(docs)
        t == FitTfidf([i \in DOMAIN docs |-> CountRow(vocab, docs[i])],
                      Len(vocab))
    IN  [isNone |-> FALSE, kind |-> kind, fitted |-> TRUE,
         vocabulary |-> vocab,
         df |-> IF kind = "TFIDF" THEN t.df ELSE <<>>,
         n |-> IF kind = "TFIDF" THEN t.n ELSE 0]

VecCols(vec) == IF vec.kind = "HASH" THEN HashSize ELSE Len(vec.vocabulary)

\* self.vectorizer.transform of one text with a fitted vectorizer.
TransformRow(vec, doc) ==
    CASE vec.kind = "HASH" -> HashRow(doc)
      [] vec.kind = "TFIDF" ->
            Reweight([df |-> vec.df, n |-> vec.n],
                     CountRow(vec.vocabulary, doc))
      [] OTHER -> CountRow(vec.vocabulary, doc)

\* self.vectorizer.transform(docs) on a list of documents: the exception it
\* raises, or the matrix.  None has no transform method; an unfitted
\* CountVectorizer or TfidfVectorizer raises NotFittedError; a document that
\* is None has no lower().
Transform(vec, docs) ==
    IF vec.isNone THEN [raised |-> "AttributeError", m |-> NoMatrix]
    ELSE IF ~vec.fitted THEN [raised |-> "NotFittedError", m |-> NoMatrix]
    ELSE IF HasNone(docs) THEN [raised |-> "AttributeError", m |-> NoMatrix]
    ELSE [raised |-> "",
          m |-> Matrix([i \in DOMAIN docs |-> TransformRow(vec, docs[i])],
                       VecCols(vec))]

\* -------------------------------------------------- feature selection
NoSelector == [isNone |-> TRUE, scores |-> <<>>]

Labels1(target) == Cardinality({i \in DOMAIN target : target[i] = 1})

\* feature_selection.chi2(X, y)[0] for labels in {0, 1}, up to a positive
\* factor common to all columns: for column f with total F and total O1 over
\* the documents labelled 1, chi2 is (n*O1 - n1*F)^2 / (F*n1*n0); the score
\* here is that numerator times the totals of the other non-empty columns.
\* A column sklearn scores NaN (F = 0, or one class only) scores 0.
Chi2(rows, ncols, target) ==
    LET n == Len(rows)
        n1 == Labels1(target)
        F(f) == SumSeq([i \in 1..n |-> rows[i][f][1]])
        O1(f) == SumSeq([i \in 1..n |->
                           IF target[i] = 1 THEN rows[i][f][1] ELSE 0])
        D(f) == n * O1(f) - n1 * F(f)
        others(f) == ProdSeq([g \in 1..ncols |->
                                IF g = f \/ F(g) = 0 THEN 1 ELSE F(g)])
    IN  [f \in 1..ncols |-> D(f) * D(f) * others(f)]

\* sorted(range(len(scores)), key=lambda k: scores[k], reverse=True): by
\* descending score, equal scores in ascending index order (the sort is
\* stable).
RECURSIVE SortedDesc(_, _)
SortedDesc(scores, left) ==
    IF left = {} THEN <<>>
    ELSE LET best == CHOOSE k \in left :
                        \A j \in left :
                            \/ scores[k] > scores[j]
                            \/ (scores[k] = scores[j] /\ k <= j)
         IN  <<best>> \o SortedDesc(scores, left \ {best})

BestFeaturesIdx(scores) == SortedDesc(scores, DOMAIN scores)

\* m[:, idx]
Columns(m, idx) ==
    Matrix([i \in DOMAIN m.rows |-> [k \in DOMAIN idx |-> m.rows[i][idx[k]]]],
           Len(idx))

\* Whether m[:, idx] raises IndexError.
OutOfRange(m, idx) == \E k \in DOMAIN idx : idx[k] > m.ncols

\* ---------------------------------------------------- extract_features
\* The top_n_feat argument: None, or a number of features.
NoTopN == [isNone |-> TRUE, n |-> 0]
TopN(k) == [isNone |-> FALSE, n |-> k]
TopNValues == {NoTopN, TopN(1), TopN(2)}

\* Lines 137-146 and 159-168: the BOW and TFIDF branches.  st holds the
\* fields the method assigns; a raise leaves the assignments made so far.
\* fit_transform raises AttributeError on a document that is None and
\* ValueError when the training text gives an empty vocabulary.
FitBranch(st, kind, train, test) ==
    IF HasNone(train.data)
    THEN [st EXCEPT !.vectorizer = NewVectorizer(kind),
                    !.raised = "AttributeError"]
    ELSE IF Vocabulary(train.data) = <<>>
    THEN [st EXCEPT !.vectorizer = NewVectorizer(kind),
                    !.raised = "ValueError"]
    ELSE LET vec == FitVectorizer(kind, train.data)
             st1 == [st EXCEPT !.vectorizer = vec,
                               !.train = Transform(vec, train.data).m]
         IN  IF Len(test.data) > 0
             THEN IF HasNone(test.data)
                  THEN [st1 EXCEPT !.raised = "AttributeError"]
                  ELSE [st1 EXCEPT !.test = Transform(vec, test.data).m]
             ELSE st1

\* Lines 147-158: the HASH branch.  TfidfTransformer.fit_transform raises
\* ValueError on a matrix without rows.
HashBranch(st, train, test) ==
    LET vec == NewVectorizer("HASH")
        st0 == [st EXCEPT !.vectorizer = vec,
                          !.tfidf_transformer = NoTransformer]
    IN  IF HasNone(train.data) THEN [st0 EXCEPT !.raised = "AttributeError"]
        ELSE IF Len(train.data) = 0 THEN [st0 EXCEPT !.raised = "ValueError"]
        ELSE LET train_counts == Transform(vec, train.data).m
                 t == FitTfidf(train_counts.rows, train_counts.ncols)
                 st1 == [st0 EXCEPT
                            !.tfidf_transformer = t,
                            !.train = Matrix(ReweightAll(t, train_counts.rows),
                                             train_counts.ncols)]
             IN  IF Len(test.data) > 0
                 THEN IF HasNone(test.data)
                      THEN [st1 EXCEPT !.raised = "AttributeError"]
                      ELSE LET test_counts == Transform(vec, test.data).m
                           IN  [st1 EXCEPT
                                  !.test = Matrix(ReweightAll(t, test_counts.rows),
                                                  test_counts.ncols)]
                 ELSE st1

\* Lines 137-168: the branch chosen by tokenizer_type; no branch is taken for
\* a value that is none of the three.
Vectorize(st, tokenizer_type, train, test) ==
    CASE tokenizer_type = "BOW" -> FitBranch(st, "BOW", train, test)
      [] tokenizer_type = "HASH" -> HashBranch(st, train, test)
      [] tokenizer_type = "TFIDF" -> FitBranch(st, "TFIDF", train, test)
      [] OTHER -> st

\* Lines 169-176.  chi2 raises ValueError on None and on a matrix whose
\* number of rows is not the number of labels; None[:, idx] raises TypeError.
SelectFeatures(st, top_n, train, test) ==
    IF st.raised # "" \/ top_n.isNone THEN st
    ELSE IF st.train.isNone \/ Len(st.train.rows) # Len(train.target)
    THEN [st EXCEPT !.raised = "ValueError"]
    ELSE LET fs == Chi2(st.train.rows, st.train.ncols, train.target)
             idx == Take(BestFeaturesIdx(fs), top_n.n)
             st1 == [st EXCEPT !.train = Columns(st.train, idx)]
             st2 == [st1 EXCEPT !.test = Columns(st.test, idx)]
             done(s) == [s EXCEPT
                            !.feature_selector = [isNone |-> FALSE, scores |-> fs],
                            !.top_n_feat = top_n.n,
                            !.selection = Selection(idx)]
         IN  IF Len(test.data) > 0
             THEN IF st.test.isNone THEN [st1 EXCEPT !.raised = "TypeError"]
                  ELSE IF OutOfRange(st.test, idx)
                       THEN [st1 EXCEPT !.raised = "IndexError"]
                       ELSE done(st2)
             ELSE done(st1)

\* ----------------------------------------------------------- classifier
NoClassifier == [isNone |-> TRUE, fitted |-> FALSE, ncols |-> 0,
                 lo |-> 0, hi |-> 0]

SeqMin(s) == CHOOSE x \in Range(s) : \A y \in Range(s) : x <= y
SeqMax(s) == CHOOSE x \in Range(s) : \A y \in Range(s) : x >= y

\* model.fit(X, y) of the classifier handed to train_classifier: it keeps
\* the number of columns and the labels it was fitted on.
Fit(X, y) == [isNone |-> FALSE, fitted |-> TRUE, ncols |-> X.ncols,
              lo |-> SeqMin(y), hi |-> SeqMax(y)]

\* The label the fitted model gives one row: a fixed function of the row.
PredictRow(clf, row) ==
    IF SumSeq([j \in DOMAIN row |-> row[j][1]]) % 2 = 0 THEN clf.lo ELSE clf.hi

\* self.classifier.predict(X), X = tr_features or tr_features.todense().
\* None has no predict attribute (looked up before the argument is
\* evaluated); None has no todense(); the model rejects None, being unfitted,
\* and a matrix of another width.
Predict(clf, m, dense) ==
    IF clf.isNone THEN [raised |-> "AttributeError", labels |-> <<>>]
    ELSE IF m.isNone
    THEN [raised |-> IF dense THEN "AttributeError" ELSE "ValueError",
          labels |-> <<>>]
    ELSE IF ~clf.fitted THEN [raised |-> "NotFittedError", labels |-> <<>>]
    ELSE IF m.ncols # clf.ncols THEN [raised |-> "ValueError", labels |-> <<>>]
    ELSE [raised |-> "",
          labels |-> [i \in DOMAIN m.rows |-> PredictRow(clf, m.rows[i])]]

\* Lines 185-189: the classifier after train_classifier, and what it raised.
Train(train, dense) ==
    LET unfitted == [NoClassifier EXCEPT !.isNone = FALSE]
        X == train.tr_features
    IN  IF X.isNone
        THEN [raised |-> IF dense THEN "AttributeError" ELSE "ValueError",
              classifier |-> unfitted]
        ELSE IF Len(X.rows) # Len(train.target)
        THEN [raised |-> "ValueError", classifier |-> unfitted]
        ELSE [raised |-> "", classifier |-> Fit(X, train.target)]

\* ------------------------------------------------------------ prediction
\* Lines 236-239 and 275-278: the column subset applied at inference.
InferenceSelection ==
    IF feature_selector.isNone THEN NoSelection
    ELSE Selection(Take(BestFeaturesIdx(feature_selector.scores), top_n_feat))

\* tr_features after lines 274-278 (and 235-239): the transform of the
\* texts, then the stored selection.
InferenceFeatures(docs) ==
    LET t == Transform(vectorizer, docs)
        sel == InferenceSelection
    IN  IF t.raised # "" THEN t
        ELSE IF sel.isNone THEN t
        ELSE IF OutOfRange(t.m, sel.idx)
        THEN [raised |-> "IndexError", m |-> NoMatrix]
        ELSE [raised |-> "", m |-> Columns(t.m, sel.idx)]

\* Lines 257-273: the scan of predict_files.  Every entry of the listing,
\* a subdirectory too, is handed to the extraction functions; only the pdf
\* branch skips an entry whose text is None.
RECURSIVE Scan(_, _, _)
Scan(entries, file_type, acc) ==
    IF entries = <<>> THEN acc
    ELSE LET e == Head(entries)
             text == ExtractText(e.name, file_type)
             keep == [data |-> Append(acc.data, text),
                      filenames |-> Append(acc.filenames, e.name)]
         IN  IF file_type = "pdf" /\ text.isNone
             THEN Scan(Tail(entries), file_type, acc)
             ELSE Scan(Tail(entries), file_type, keep)

\* self.vectorizer.transform(tr_features) at lines 241 and 243: the argument
\* is a feature matrix, whose rows are not strings and have no lower().
TransformMatrix(vec, m) == [raised |-> "AttributeError", m |-> NoMatrix]

\* ------------------------------------------------------------- the state
\* Lines 53-60: __init__.
Init ==
    /\ dataset = EmptyDataset
    /\ training_set = EmptyDataset
    /\ test_set = EmptyDataset
    /\ classifier = NoClassifier
    /\ vectorizer = NoVectorizer
    /\ feature_selector = NoSelector
    /\ top_n_feat = 0
    /\ tfidf_transformer = NoTransformer
    /\ last = NoCall
    /\ calls = 0

Called(op, path) == [NoCall EXCEPT !.op = op, !.path = path]

\* Lines 62-96.
add_classified_docs_to_dataset ==
    \E dir_path \in Dirs, recursive \in BOOLEAN,
       file_type \in FileTypes, category \in Categories :
        LET ds == AddEntries(dataset, ListDir(dir_path), recursive,
                             file_type, category)
        IN  /\ calls < MaxCalls
            /\ Len(ds.filenames) <= MaxDocs
            /\ dataset' = ds
            /\ last' = Called("add_classified_docs_to_dataset", dir_path)
            /\ calls' = calls + 1
            /\ UNCHANGED <<training_set, test_set, classifier, vectorizer,
                           feature_selector, top_n_feat, tfidf_transformer>>

\* Lines 98-114.
generate_training_and_test_sets ==
    \E percentage_training \in Ratios,
       idx_rand_order \in Perms(Len(dataset.data)) :
        LET training_set_idx == TrainingSetIdx(idx_rand_order,
                                               percentage_training)
            test_set_idx == TestSetIdx(idx_rand_order, percentage_training)
        IN  /\ calls < MaxCalls
            /\ IF Len(dataset.data) > 0
               THEN /\ training_set' = SplitInto(training_set, dataset,
                                                 training_set_idx)
                    /\ test_set' = SplitInto(test_set, dataset, test_set_idx)
                    /\ last' = [Called("generate_training_and_test_sets", "")
                                  EXCEPT !.percentage_training =
                                             percentage_training,
                                         !.training_set_idx = training_set_idx,
                                         !.test_set_idx = test_set_idx]
               ELSE /\ UNCHANGED <<training_set, test_set>>
                    /\ last' = Called("generate_training_and_test_sets", "")
            /\ calls' = calls + 1
            /\ UNCHANGED <<dataset, classifier, vectorizer, feature_selector,
                           top_n_feat, tfidf_transformer>>

\* Lines 116-176, with ngram_range, lemmatization, stop_words, max_df and
\* max_features at values that leave the tokens of the corpus as they are.
extract_features ==
    \E tokenizer_type \in TokenizerTypes \cup {Unrecognized},
       top_n \in TopNValues :
        LET st0 == [vectorizer |-> vectorizer,
                    train |-> training_set.tr_features,
                    test |-> test_set.tr_features,
                    feature_selector |-> feature_selector,
                    top_n_feat |-> top_n_feat,
                    tfidf_transformer |-> tfidf_transformer,
                    selection |-> NoSelection,
                    raised |-> ""]
            st1 == Vectorize(st0, tokenizer_type, training_set, test_set)
            st == SelectFeatures(st1, top_n, training_set, test_set)
        IN  /\ calls < MaxCalls
            /\ vectorizer' = st.vectorizer
            /\ training_set' = [training_set EXCEPT !.tr_features = st.train]
            /\ test_set' = [test_set EXCEPT !.tr_features = st.test]
            /\ feature_selector' = st.feature_selector
            /\ top_n_feat' = st.top_n_feat
            /\ tfidf_transformer' = st.tfidf_transformer
            /\ last' = [Called("extract_features", tokenizer_type)
                          EXCEPT !.raised = st.raised,
                                 !.selection = st.selection]
            /\ calls' = calls + 1
            /\ UNCHANGED <<dataset, classifier>>

\* Lines 178-189.
train_classifier ==
    \E dense \in BOOLEAN :
        LET r == Train(training_set, dense)
        IN  /\ calls < MaxCalls
            /\ classifier' = r.classifier
            /\ last' = [Called("train_classifier", "")
                          EXCEPT !.raised = r.raised]
            /\ calls' = calls + 1
            /\ UNCHANGED <<dataset, training_set, test_set, vectorizer,
                           feature_selector, top_n_feat, tfidf_transformer>>

\* Lines 191-212.  The four metrics are functions of (target, pred); they
\* raise ValueError when the two differ in length.
test_classifier ==
    \E test_on_training \in BOOLEAN, dense \in BOOLEAN :
        LET set == IF test_on_training THEN training_set ELSE test_set
            pred == Predict(classifier, set.tr_features, dense)
            raised == IF pred.raised # "" THEN pred.raised
                      ELSE IF Len(pred.labels) # Len(set.target)
                           THEN "ValueError" ELSE ""
        IN  /\ calls < MaxCalls
            /\ last' = [Called("test_classifier", "")
                          EXCEPT !.raised = raised,
                                 !.arg = IF pred.raised = ""
                                         THEN set.tr_features ELSE NoMatrix,
                                 !.labels = pred.labels]
            /\ calls' = calls + 1
            /\ UNCHANGED <<dataset, training_set, test_set, classifier,
                           vectorizer, feature_selector, top_n_feat,
                           tfidf_transformer>>

\* Lines 214-243.  Both branches of `if dense` are the same expression.
predict_file ==
    \E file_path \in Files, file_type \in FileTypes, dense \in BOOLEAN :
        LET fulltext == ExtractText(file_path, file_type)
            tr_features == InferenceFeatures(<<fulltext>>)
            again == IF tr_features.raised # "" THEN tr_features
                     ELSE IF classifier.isNone
                          THEN [raised |-> "AttributeError", m |-> NoMatrix]
                          ELSE TransformMatrix(vectorizer, tr_features.m)
            pred == IF again.raised # ""
                    THEN [raised |-> again.raised, labels |-> <<>>]
                    ELSE Predict(classifier, again.m, FALSE)
        IN  /\ calls < MaxCalls
            /\ last' = [Called("predict_file", file_path)
                          EXCEPT !.raised = pred.raised,
                                 !.arg = IF pred.raised = ""
                                         THEN again.m ELSE NoMatrix,
                                 !.labels = pred.labels]
            /\ calls' = calls + 1
            /\ UNCHANGED <<dataset, training_set, test_set, classifier,
                           vectorizer, feature_selector, top_n_feat,
                           tfidf_transformer>>

\* Lines 245-282.
predict_files ==
    \E dir_path \in Dirs, file_type \in FileTypes, dense \in BOOLEAN :
        LET scan == Scan(ListDir(dir_path), file_type,
                         [data |-> <<>>, filenames |-> <<>>])
            tr_features == InferenceFeatures(scan.data)
            pred == IF tr_features.raised # ""
                    THEN [raised |-> tr_features.raised, labels |-> <<>>]
                    ELSE Predict(classifier, tr_features.m, dense)
        IN  /\ calls < MaxCalls
            /\ last' = [Called("predict_files", dir_path)
                          EXCEPT !.raised = pred.raised,
                                 !.arg = IF pred.raised = ""
                                         THEN tr_features.m ELSE NoMatrix,
                                 !.filenames = IF pred.raised = ""
                                               THEN scan.filenames ELSE <<>>,
                                 !.labels = pred.labels]
            /\ calls' = calls + 1
            /\ UNCHANGED <<dataset, training_set, test_set, classifier,
                           vectorizer, feature_selector, top_n_feat,
                           tfidf_transformer>>

Next ==
    \/ add_classified_docs_to_dataset
    \/ generate_training_and_test_sets
    \/ extract_features
    \/ train_classifier
    \/ test_classifier
    \/ predict_file
    \/ predict_files

Spec == Init /\ [][Next]_vars

\* Ingestion and partition alone: the part of the class that
\* generate_training_and_test_sets reads and writes.
NextPartition ==
    \/ add_classified_docs_to_dataset
    \/ generate_training_and_test_sets

SpecPartition == Init /\ [][NextPartition]_vars

\* ------------------------------------------------------------ properties
\* The regular files of a directory that yield text, in listing order.
TextFiles(dir) ==
    LET es == SelectSeq(ListDir(dir),
                        LAMBDA e : ~e.isdir /\ ~FileText(e.name).isNone)
    IN  [i \in DOMAIN es |-> es[i].name]

\* The three parallel sequences of a collection have one length, and index i
\* of the text sequence holds the text of the file named at index i.
Aligned(ds) ==
    /\ Len(ds.data) = Len(ds.filenames)
    /\ Len(ds.filenames) = Len(ds.target)
    /\ \A i \in DOMAIN ds.data :
          i \in DOMAIN ds.filenames /\ ds.data[i] = FileText(ds.filenames[i])

\* C1: in every reachable state the full dataset, the training subset and the
\* test subset each have text, file-identifier and label sequences of equal
\* length whose index i refers to the same document.
C1_IndexAlignment ==
    Aligned(dataset) /\ Aligned(training_set) /\ Aligned(test_set)

\* C2: a file that yields no text is skipped by ingestion, so ingesting
\* directory A (one file with text, one without) appends exactly one entry to
\* each of the three sequences of the full dataset.
C2_SkipOnEmptyExtraction ==
    [][(last'.op = "add_classified_docs_to_dataset" /\ last'.path = "A"
            /\ calls' = calls + 1)
        => /\ Len(dataset'.data) = Len(dataset.data) + 1
           /\ Len(dataset'.filenames) = Len(dataset.filenames) + 1
           /\ Len(dataset'.target) = Len(dataset.target) + 1]_vars

\* C3: after a split of a full dataset of N > 0 documents at ratio p, the
\* training indices are the first floor(N * p) of a permutation of the N
\* indices and the test indices the rest: the two index sets are disjoint,
\* together they are all N indices, the sizes add up to N, and each subset
\* holds the documents, file identifiers and labels at its indices.
C3_PartitionComplete ==
    (last.op = "generate_training_and_test_sets" /\ Len(dataset.data) > 0)
    => LET N == Len(dataset.data)
           tr == last.training_set_idx
           te == last.test_set_idx
           p == last.percentage_training
       IN  /\ Len(tr) * p[2] <= N * p[1]
           /\ N * p[1] < (Len(tr) + 1) * p[2]
           /\ Range(tr) \cap Range(te) = {}
           /\ Range(tr) \cup Range(te) = 1..N
           /\ Len(tr) + Len(te) = N
           /\ Len(training_set.data) + Len(test_set.data) = N
           /\ training_set.data = [i \in DOMAIN tr |-> dataset.data[tr[i]]]
           /\ training_set.filenames = [i \in DOMAIN tr |-> dataset.filenames[tr[i]]]
           /\ training_set.target = [i \in DOMAIN tr |-> dataset.target[tr[i]]]
           /\ test_set.data = [i \in DOMAIN te |-> dataset.data[te[i]]]
           /\ test_set.filenames = [i \in DOMAIN te |-> dataset.filenames[te[i]]]
           /\ test_set.target = [i \in DOMAIN te |-> dataset.target[te[i]]]

\* A split of three documents at ratio 4/5 into two and one.
C3_Witness ==
    /\ last.op = "generate_training_and_test_sets"
    /\ last.percentage_training = <<4, 5>>
    /\ Len(dataset.data) = 3
    /\ Len(training_set.data) = 2
    /\ Len(test_set.data) = 1

\* C4: after an extract_features call with one of the three strategies
\* returns, the column subset that predict_file and predict_files apply is
\* the one that call applied to the training and test matrices, and none
\* when that call applied none.
C4_SelectionConsistency ==
    (last.op = "extract_features" /\ last.path \in TokenizerTypes
        /\ last.raised = "")
    => InferenceSelection = last.selection

\* The pipeline is ready for inference: the vectorizer is fitted, the
\* classifier is fitted, and a transformed and selected text has the width
\* the classifier was fitted on.
Prepared ==
    /\ ~vectorizer.isNone /\ vectorizer.fitted
    /\ ~classifier.isNone /\ classifier.fitted
    /\ LET t == InferenceFeatures(<<Text(<<"cat">>)>>)
       IN  t.raised = "" /\ t.m.ncols = classifier.ncols

\* m[:, idx] for the stored selection, m when there is none.
Selected(m) ==
    IF InferenceSelection.isNone THEN m
    ELSE Columns(m, InferenceSelection.idx)

\* C5: with the hashing strategy, the matrix predict_files hands the
\* classifier is the hashed count of each inference text reweighted by the
\* step fitted on the training hashed counts (then the stored selection).
C5_HashInferenceReweighted ==
    (last.op = "predict_files" /\ last.raised = "" /\ vectorizer.kind = "HASH")
    => last.arg =
         Selected(Matrix(
            ReweightAll(tfidf_transformer,
                        [i \in DOMAIN last.filenames |->
                            HashRow(FileText(last.filenames[i]))]),
            HashSize))

\* C6: on a prepared pipeline, predict_file on a file that yields text
\* returns normally, hands the classifier the text transformed once by the
\* fitted vectorizer with the stored selection applied, and returns the
\* classifier's label for that vector.
C6_PredictFileOnce ==
    (last.op = "predict_file" /\ ~FileText(last.path).isNone /\ Prepared)
    => LET t == InferenceFeatures(<<FileText(last.path)>>)
       IN  /\ last.raised = ""
           /\ last.arg = t.m
           /\ last.labels = <<PredictRow(classifier, t.m.rows[1])>>

\* C7: extract_features raises ConfigurationError for a strategy that is
\* none of the three, and EmptyDatasetError when the training subset has no
\* documents; it returns normally in neither case.
C7_ExtractFailures ==
    last.op = "extract_features"
    => /\ last.path = Unrecognized => last.raised = "ConfigurationError"
       /\ (last.path # Unrecognized /\ Len(training_set.data) = 0)
            => last.raised = "EmptyDatasetError"

\* C8: test_classifier raises NotTrainedError while no classifier has been
\* trained, and predict_file raises NotVectorizedError while no vectorizer
\* has been fitted.
C8_PrerequisiteErrors ==
    /\ (last.op = "test_classifier" /\ (classifier.isNone \/ ~classifier.fitted))
         => last.raised = "NotTrainedError"
    /\ (last.op = "predict_file" /\ vectorizer.isNone)
         => last.raised = "NotVectorizedError"

\* C9: on a prepared pipeline, predict_files returns, for every source
\* format, the regular files of the directory that yield text, in listing
\* order, with one label each, the i-th label being the classifier's label
\* for the i-th file; subdirectories and files without text add no entry.
C9_PredictFilesParallel ==
    (last.op = "predict_files" /\ Prepared)
    => /\ last.raised = ""
       /\ last.filenames = TextFiles(last.path)
       /\ Len(last.labels) = Len(last.filenames)
       /\ \A i \in DOMAIN last.labels :
             last.labels[i] =
               PredictRow(classifier,
                          InferenceFeatures(<<FileText(last.filenames[i])>>).m.rows[1])

\* What the current vectorizer (with, for HASH, the fitted reweighting step)
\* makes of a list of documents, before any selection.
FullTransform(docs) ==
    LET t == Transform(vectorizer, docs)
    IN  IF t.raised # "" \/ vectorizer.kind # "HASH" THEN t
        ELSE IF tfidf_transformer.isNone
             THEN [raised |-> "NotFittedError", m |-> NoMatrix]
             ELSE [raised |-> "",
                   m |-> Matrix(ReweightAll(tfidf_transformer, t.m.rows),
                                t.m.ncols)]

\* All lists of at most n column indices of a matrix of n columns.
ColumnLists(n) == UNION {[1..k -> 1..n] : k \in 0..n}

\* The feature matrix of a subset, when it has one, is some column selection
\* of what the current vectorizer makes of the subset's current documents.
Fresh(subset) ==
    ~subset.tr_features.isNone
    => LET t == FullTransform(subset.data)
       IN  /\ t.raised = ""
           /\ \E idx \in ColumnLists(t.m.ncols) :
                 subset.tr_features = Columns(t.m, idx)

\* C10: whenever a subset holds a feature matrix, it has one row per current
\* document of the subset, row i made from document i by the current
\* vectorizer and a selection: no matrix of an earlier extraction or an
\* earlier partition survives.
C10_FeaturesFresh == Fresh(training_set) /\ Fresh(test_set)

====
